---------------------------- MODULE Spec2Model ----------------------------
(***************************************************************************)
(* Model of network_viz (graph_neural_network/utils.py): build the full   *)
(* graph from an edge list, pick a moderate-degree seed, run the bounded   *)
(* breadth-first expansion with shuffled neighbours, take the induced      *)
(* subgraph, classify its nodes by the 70th percentile of their degree,    *)
(* print the summary and return the subgraph.                              *)
(*                                                                         *)
(* One behaviour is one call.  pc is the position of the call in the       *)
(* function body; the other variables are the function's locals.           *)
(***************************************************************************)
EXTENDS Integers, Sequences, FiniteSets

(***************************************************************************)
(* Bounds of the model.                                                    *)
(*   ShuffleDepth: random.shuffle may return any permutation; the model    *)
(*   draws every permutation whose first ShuffleDepth positions are        *)
(*   arbitrary and whose remaining positions keep the list order.          *)
(*   num_nodes is drawn from 1..MaxSmallNumNodes and from                  *)
(*   MinLargeNumNodes..MaxLargeNumNodes (around the component sizes).      *)
(***************************************************************************)
ShuffleDepth == 1
MaxSmallNumNodes == 3
MinLargeNumNodes == 20
MaxLargeNumNodes == 23

(* Program constants: the degree band of line 20, the percentile of line 42 *)
BandLow == 20
BandHigh == 100
PercentileQ == 70

(* what a local holds before the function has assigned it: no node (the   *)
(* node identifiers of the inputs are positive), no graph, no number       *)
NoNode == -1
NoGraph == [ nodes |-> {}, adj |-> <<>> ]
(* the float 0.0/0: what numpy's division yields for an empty mean *)
NaN == [ num |-> 0, den |-> 0 ]

Min(a, b) == IF a <= b THEN a ELSE b

(***************************************************************************)
(* Inputs: the edge lists handed to the call (rows of data.edge_index.t()).*)
(***************************************************************************)
Both(E) == E \cup { <<e[2], e[1]>> : e \in E }

(* the empty edge list *)
EmptyEdges == {}

(* the small scenario graph: maximum degree 3, nobody in the band *)
ScenarioEdges == { <<1, 2>>, <<2, 3>>, <<3, 1>>, <<1, 4>> }

(* node 1 has a self-loop and 18 leaves (degree 20); two tails hang off    *)
(* leaves 19 and 18: 19-20-21 and 18-22.  One component of 22 nodes.       *)
TailedStarEdges ==
    { <<1, 1>> } \cup { <<1, v>> : v \in 2..19 }
                 \cup { <<19, 20>>, <<20, 21>>, <<18, 22>> }

(* nodes 1 and 2 are both joined to each of 3..22 (degree 20 each); every  *)
(* edge is listed in both directions.  One component of 22 nodes.          *)
TwoCentreEdges ==
    Both({ <<1, v>> : v \in 3..22 } \cup { <<2, v>> : v \in 3..22 })

(* a moderate component (node 1 with a self-loop and 18 leaves) next to a  *)
(* hub (node 100) of degree 101                                            *)
HubEdges ==
    { <<1, 1>> } \cup { <<1, v>> : v \in 2..19 }
                 \cup { <<100, v>> : v \in 101..201 }

EdgeLists ==
    { EmptyEdges, ScenarioEdges, TailedStarEdges, TwoCentreEdges, HubEdges }

NumNodesChoices ==
    (1..MaxSmallNumNodes) \cup (MinLargeNumNodes..MaxLargeNumNodes)

(***************************************************************************)
(* The graph library, as the function uses it.                             *)
(***************************************************************************)

(* nx.Graph().add_edges_from(edge_list): undirected, repeated rows and     *)
(* reversed rows collapse into one edge, a row (u,u) is a self-loop.       *)
AddEdgesFrom(edges) ==
    LET ns == { e[1] : e \in edges } \cup { e[2] : e \in edges }
    IN  [ nodes |-> ns,
          adj   |-> [ u \in ns |->
                       { v \in ns : <<u, v>> \in edges \/ <<v, u>> \in edges } ] ]

(* a variant of Neighbors that walks over every node of the graph *)
NeighborsAllNodes(G, u) == G.nodes

(* G.neighbors(u): a self-loop makes u its own neighbour *)
Neighbors(G, u) == G.adj[u]

(* G.degree(): the number of incident edges, a self-loop counted twice *)
Degree(G, u) ==
    Cardinality(G.adj[u]) + (IF u \in G.adj[u] THEN 1 ELSE 0)

(* dict(G.degree()) *)
Degrees(G) == [ u \in G.nodes |-> Degree(G, u) ]

(* a variant of Subgraph that keeps, for the nodes of nbunch, all their    *)
(* edges of G                                                              *)
SubgraphKeepingAllEdges(G, nbunch) ==
    LET ns == G.nodes \cap nbunch
    IN  [ nodes |-> ns, adj |-> [ u \in ns |-> G.adj[u] ] ]

(* G.subgraph(nbunch).copy(): the nodes of nbunch that are in G, and the   *)
(* edges of G between them                                                 *)
Subgraph(G, nbunch) ==
    LET ns == G.nodes \cap nbunch
    IN  [ nodes |-> ns, adj |-> [ u \in ns |-> G.adj[u] \cap ns ] ]

(***************************************************************************)
(* Seed selection, lines 17-21.                                            *)
(***************************************************************************)
(* variants of InBand: without the upper end, without the lower end *)
InBandNoUpperEnd(deg) == BandLow <= deg
InBandNoLowerEnd(deg) == deg <= BandHigh

InBand(deg) == BandLow <= deg /\ deg <= BandHigh

ModerateNodes(degrees) == { node \in DOMAIN degrees : InBand(degrees[node]) }

(***************************************************************************)
(* The expansion loop, lines 24-35.                                        *)
(***************************************************************************)
(* a variant of LoopCond that stops one short of the bound *)
LoopCondOneShort(q, vis, n) == q # <<>> /\ Cardinality(vis) < n - 1

LoopCond(q, vis, n) == q # <<>> /\ Cardinality(vis) < n

(* variants of Pop: queue[0] without removal, and queue.pop() from the end *)
PopWithoutRemoval(q) == <<Head(q), q>>
PopFromEnd(q) == <<q[Len(q)], SubSeq(q, 1, Len(q) - 1)>>

(* queue.pop(0): the item taken and the queue left *)
Pop(q) == <<Head(q), Tail(q)>>

(* the items of a set of numbers as a list, smallest first *)
AscendingSeq(S) ==
    [ i \in 1..Cardinality(S) |->
        CHOOSE x \in S : Cardinality({ y \in S : y < x }) = i - 1 ]

(* list(G_full.neighbors(current)) *)
NeighborList(G, u) == AscendingSeq(Neighbors(G, u))

(* the list without its k-th item *)
RemoveAt(list, k) ==
    [ i \in 1..(Len(list) - 1) |-> IF i < k THEN list[i] ELSE list[i + 1] ]

(* the orders of list in which the first d positions hold any items and    *)
(* the other items follow in list order                                    *)
RECURSIVE ShufflesTo(_, _)
ShufflesTo(list, d) ==
    UNION { IF d = 0 \/ l = <<>>
            THEN { l }
            ELSE UNION { { <<l[k]>> \o t : t \in ShufflesTo(RemoveAt(l, k), d - 1) }
                         : k \in 1..Len(l) }
            : l \in { list } }

(* the outcomes of random.shuffle(list) within ShuffleDepth *)
Shuffles(list) == ShufflesTo(list, ShuffleDepth)

(* a variant of Admit without the test of the bound *)
AdmitWithoutBound(neighbor, vis, n) == neighbor \notin vis

(* line 33 *)
Admit(neighbor, vis, n) == neighbor \notin vis /\ Cardinality(vis) < n

(***************************************************************************)
(* Classification, lines 42-45, and the summary, lines 102-108.            *)
(***************************************************************************)

(* the i-th smallest value (i from 0) of the values of the dict degs *)
KthSmallest(degs, i) ==
    CHOOSE v \in { degs[u] : u \in DOMAIN degs } :
        /\ Cardinality({ u \in DOMAIN degs : degs[u] < v }) <= i
        /\ i < Cardinality({ u \in DOMAIN degs : degs[u] <= v })

(* np.percentile(values, q), linear interpolation between the two order    *)
(* statistics around position q/100 * (n-1); the result is kept as the    *)
(* exact fraction num/den, where numpy rounds it to a float                *)
NpPercentile(degs, q) ==
    LET n   == Cardinality(DOMAIN degs)
        pos == q * (n - 1)
        lo  == pos \div 100
        hi  == Min(lo + 1, n - 1)
        fr  == pos % 100
        a   == KthSmallest(degs, lo)
        b   == KthSmallest(degs, hi)
    IN  [ num |-> 100 * a + fr * (b - a), den |-> 100 ]

(* sub_degrees[node] >= degree_threshold, sub_degrees[node] < degree_threshold *)
IsPopular(deg, thr) == deg * thr.den >= thr.num
(* a variant of IsRegular that includes the threshold *)
IsRegularInclusive(deg, thr) == deg * thr.den <= thr.num
IsRegular(deg, thr) == deg * thr.den < thr.num

(* the sum of the first i items of a list of numbers *)
RECURSIVE SumSeq(_, _)
SumSeq(list, i) == IF i = 0 THEN 0 ELSE list[i] + SumSeq(list, i - 1)

(* sum(degs[u] for u in S) *)
SumOver(degs, S) ==
    LET order == AscendingSeq(S)
    IN  SumSeq([ i \in 1..Len(order) |-> degs[order[i]] ], Cardinality(S))

(* a variant of NpMean that reports 0 for an empty list *)
NpMeanZeroWhenEmpty(degs, S) ==
    IF S = {} THEN [ num |-> 0, den |-> 1 ]
    ELSE [ num |-> SumOver(degs, S), den |-> Cardinality(S) ]

(* np.mean of the degrees of the nodes of S, as the fraction sum/count:    *)
(* the mean of an empty list is 0.0/0 = nan (with a warning), not an       *)
(* exception                                                               *)
NpMean(degs, S) ==
    IF S = {} THEN NaN
    ELSE [ num |-> SumOver(degs, S), den |-> Cardinality(S) ]

(* max(sub_degrees.values()) *)
MaxDegree(degs) ==
    CHOOSE v \in { degs[u] : u \in DOMAIN degs } :
        \A u \in DOMAIN degs : degs[u] <= v

(***************************************************************************)
(* State                                                                   *)
(***************************************************************************)
VARIABLES
    pc,               \* position in network_viz
    edge_list,        \* the rows of data.edge_index.t()
    num_nodes,        \* the parameter
    G_full,
    start_node,
    visited,
    queue,
    current,
    neighbors,        \* the part of the shuffled list the for loop has not reached
    G_sub,
    sub_degrees,
    degree_threshold,
    popular_pages,
    regular_pages,
    printed,          \* the numbers the summary has printed
    result            \* the returned value

vars == << pc, edge_list, num_nodes, G_full, start_node, visited, queue,
           current, neighbors, G_sub, sub_degrees, degree_threshold,
           popular_pages, regular_pages, printed, result >>

Init ==
    /\ pc = "build"
    /\ edge_list \in EdgeLists
    /\ num_nodes \in NumNodesChoices
    /\ G_full = NoGraph
    /\ start_node = NoNode
    /\ visited = {}
    /\ queue = <<>>
    /\ current = NoNode
    /\ neighbors = <<>>
    /\ G_sub = NoGraph
    /\ sub_degrees = <<>>
    /\ degree_threshold = NaN
    /\ popular_pages = {}
    /\ regular_pages = {}
    /\ printed = <<>>
    /\ result = NoGraph

(* lines 12-14 *)
BuildGraph ==
    /\ pc = "build"
    /\ G_full' = AddEdgesFrom(edge_list)
    /\ pc' = "seed"
    /\ UNCHANGED << edge_list, num_nodes, start_node, visited, queue, current,
                    neighbors, G_sub, sub_degrees, degree_threshold,
                    popular_pages, regular_pages, printed, result >>

(* lines 17-21, random.choice of a non-empty list *)
SelectSeed ==
    /\ pc = "seed"
    /\ \E node \in ModerateNodes(Degrees(G_full)) :
          start_node' = node
    /\ pc' = "expand"
    /\ UNCHANGED << edge_list, num_nodes, G_full, visited, queue, current,
                    neighbors, G_sub, sub_degrees, degree_threshold,
                    popular_pages, regular_pages, printed, result >>

(* line 21, random.choice([]) raises IndexError, nothing catches it *)
SelectSeedFails ==
    /\ pc = "seed"
    /\ ModerateNodes(Degrees(G_full)) = {}
    /\ pc' = "failed"
    /\ UNCHANGED << edge_list, num_nodes, G_full, start_node, visited, queue,
                    current, neighbors, G_sub, sub_degrees, degree_threshold,
                    popular_pages, regular_pages, printed, result >>

(* lines 24-25 *)
StartExpansion ==
    /\ pc = "expand"
    /\ visited' = {start_node}
    /\ queue' = <<start_node>>
    /\ pc' = "while"
    /\ UNCHANGED << edge_list, num_nodes, G_full, start_node, current,
                    neighbors, G_sub, sub_degrees, degree_threshold,
                    popular_pages, regular_pages, printed, result >>

(* lines 27-30: the loop test holds, dequeue, list and shuffle the neighbours *)
WhileStep ==
    /\ pc = "while"
    /\ LoopCond(queue, visited, num_nodes)
    /\ current' = Pop(queue)[1]
    /\ queue' = Pop(queue)[2]
    /\ neighbors' \in Shuffles(NeighborList(G_full, current'))
    /\ pc' = "for"
    /\ UNCHANGED << edge_list, num_nodes, G_full, start_node, visited,
                    G_sub, sub_degrees, degree_threshold,
                    popular_pages, regular_pages, printed, result >>

(* lines 32-35: one iteration of the for loop *)
ForStep ==
    /\ pc = "for"
    /\ neighbors # <<>>
    /\ LET neighbor == Head(neighbors)
       IN  IF Admit(neighbor, visited, num_nodes)
           THEN /\ visited' = visited \cup {neighbor}
                /\ queue' = Append(queue, neighbor)
           ELSE UNCHANGED << visited, queue >>
    /\ neighbors' = Tail(neighbors)
    /\ UNCHANGED << pc, edge_list, num_nodes, G_full, start_node, current,
                    G_sub, sub_degrees, degree_threshold,
                    popular_pages, regular_pages, printed, result >>

(* line 32: the shuffled list is exhausted, back to the loop test *)
ForDone ==
    /\ pc = "for"
    /\ neighbors = <<>>
    /\ pc' = "while"
    /\ UNCHANGED << edge_list, num_nodes, G_full, start_node, visited, queue,
                    current, neighbors, G_sub, sub_degrees, degree_threshold,
                    popular_pages, regular_pages, printed, result >>

(* line 27: the loop test fails *)
WhileExit ==
    /\ pc = "while"
    /\ ~ LoopCond(queue, visited, num_nodes)
    /\ pc' = "subgraph"
    /\ UNCHANGED << edge_list, num_nodes, G_full, start_node, visited, queue,
                    current, neighbors, G_sub, sub_degrees, degree_threshold,
                    popular_pages, regular_pages, printed, result >>

(* lines 38-39 *)
MakeSubgraph ==
    /\ pc = "subgraph"
    /\ G_sub' = Subgraph(G_full, visited)
    /\ sub_degrees' = Degrees(G_sub')
    /\ pc' = "classify"
    /\ UNCHANGED << edge_list, num_nodes, G_full, start_node, visited, queue,
                    current, neighbors, degree_threshold,
                    popular_pages, regular_pages, printed, result >>

(* lines 42-45 *)
Classify ==
    /\ pc = "classify"
    /\ degree_threshold' = NpPercentile(sub_degrees, PercentileQ)
    /\ popular_pages' =
          { node \in G_sub.nodes : IsPopular(sub_degrees[node], degree_threshold') }
    /\ regular_pages' =
          { node \in G_sub.nodes : IsRegular(sub_degrees[node], degree_threshold') }
    /\ pc' = "summary"
    /\ UNCHANGED << edge_list, num_nodes, G_full, start_node, visited, queue,
                    current, neighbors, G_sub, sub_degrees, printed, result >>

(* lines 48-110: the drawing assigns none of the locals above; the        *)
(* summary prints the two means and the maximum, then the subgraph is      *)
(* returned                                                                *)
Summary ==
    /\ pc = "summary"
    /\ printed' = Append(printed,
                  [ popular |-> NpMean(sub_degrees, popular_pages),
                    regular |-> NpMean(sub_degrees, regular_pages),
                    most    |-> MaxDegree(sub_degrees) ])
    /\ result' = G_sub
    /\ pc' = "done"
    /\ UNCHANGED << edge_list, num_nodes, G_full, start_node, visited, queue,
                    current, neighbors, G_sub, sub_degrees, degree_threshold,
                    popular_pages, regular_pages >>

Next ==
    \/ BuildGraph
    \/ SelectSeed
    \/ SelectSeedFails
    \/ StartExpansion
    \/ WhileStep
    \/ ForStep
    \/ ForDone
    \/ WhileExit
    \/ MakeSubgraph
    \/ Classify
    \/ Summary

Spec == Init /\ [][Next]_vars

(* the call is one thread that keeps running until it returns or fails *)
FairSpec == Spec /\ WF_vars(Next)

TypeOK ==
    /\ pc \in { "build", "seed", "expand", "while", "for", "subgraph",
                "classify", "summary", "done", "failed" }
    /\ num_nodes \in NumNodesChoices

(***************************************************************************)
(* Graph notions the properties are stated with, read off the edge list.   *)
(***************************************************************************)

(* u and v are the two ends of a row of the edge list *)
Joined(u, v) == <<u, v>> \in edge_list \/ <<v, u>> \in edge_list

AllNodes == { e[1] : e \in edge_list } \cup { e[2] : e \in edge_list }

(* the nodes joined by an edge to some node of S *)
NeighboursOf(S) ==
    { e[2] : e \in { f \in edge_list : f[1] \in S } }
        \cup { e[1] : e \in { f \in edge_list : f[2] \in S } }

(* the degree of u in the full graph: the other ends of its edges, and two *)
(* for a self-loop                                                         *)
FullDegree(u) ==
    Cardinality(NeighboursOf({u}) \ {u}) + (IF Joined(u, u) THEN 2 ELSE 0)

(* the nodes joined to a node of S by a path that stays inside W *)
RECURSIVE ReachWithin(_, _)
ReachWithin(S, W) ==
    LET T == S \cup (NeighboursOf(S) \cap W)
    IN  IF T = S THEN S ELSE ReachWithin(T, W)

(* the connected component of the seed in the full graph *)
SeedComponent == ReachWithin({start_node}, AllNodes)

(* the balls around the seed in the full graph: item d+1 is the set of     *)
(* nodes at distance at most d, up to the distance where the component is  *)
(* exhausted                                                               *)
RECURSIVE BallsFrom(_)
BallsFrom(balls) ==
    LET B == balls[Len(balls)]
        T == B \cup NeighboursOf(B)
    IN  IF T = B THEN balls ELSE BallsFrom(Append(balls, T))

Balls == BallsFrom(<< {start_node} >>)

(* the distance from the seed of a node v of the seed's component *)
DistIn(balls, v) == CHOOSE d \in 0..(Len(balls) - 1) :
                        v \in balls[d + 1] /\ (d = 0 \/ v \notin balls[d])

SeedChosen == pc \notin { "build", "seed", "failed" }
Expanding == pc \in { "while", "for" }
AfterLoop == pc \in { "subgraph", "classify", "summary", "done" }
HasSubgraph == pc \in { "classify", "summary", "done" }
Classified == pc \in { "summary", "done" }

(* C1: when the expansion loop has ended, the size of visited is the       *)
(* smaller of num_nodes and the size of the seed's connected component.    *)
C1_SampleSize ==
    AfterLoop =>
        Cardinality(visited) = Min(num_nodes, Cardinality(SeedComponent))

(* the loop has ended with the whole component sampled, short of num_nodes *)
C1_Witness ==
    /\ pc = "subgraph"
    /\ Cardinality(SeedComponent) < num_nodes
    /\ Cardinality(visited) = Cardinality(SeedComponent)
    /\ Cardinality(visited) > 1

(* C2: when the full graph has a node of degree 20..100, the chosen start  *)
(* node has full-graph degree of at least 20 and at most 100.              *)
C2_SeedInBand ==
    (SeedChosen /\ \E u \in AllNodes : FullDegree(u) \in 20..100) =>
        /\ start_node \in AllNodes
        /\ FullDegree(start_node) >= 20
        /\ FullDegree(start_node) <= 100

(* a seed was chosen in a graph that has a hub of degree above 100 and     *)
(* nodes of degree below 20                                                *)
C2_Witness ==
    /\ pc = "expand"
    /\ \E h \in AllNodes : FullDegree(h) > 100
    /\ \E l \in AllNodes : FullDegree(l) < 20
    /\ FullDegree(start_node) = 20

(* C3: the subgraph built (and returned) is the induced subgraph over the  *)
(* Sample Set: its nodes are the visited nodes, all nodes of the full      *)
(* graph, and its edges are exactly the full-graph edges with both ends    *)
(* visited.                                                                *)
C3_InducedSubgraph ==
    HasSubgraph =>
        /\ G_sub.nodes = visited
        /\ visited \subseteq AllNodes
        /\ \A u \in G_sub.nodes : \A v \in AllNodes \cup G_sub.adj[u] :
              v \in G_sub.adj[u] <=> (v \in visited /\ Joined(u, v))
        /\ (pc = "done" => result = G_sub)

(* a subgraph was returned that leaves out nodes and edges of the full     *)
(* graph and keeps some edge                                               *)
C3_Witness ==
    /\ pc = "done"
    /\ result.nodes # AllNodes
    /\ \E u \in result.nodes : \E v \in AllNodes \ visited : Joined(u, v)
    /\ \E u \in result.nodes : result.adj[u] # {}

(* the degree of u inside the subgraph *)
SubDegree(u) ==
    Cardinality({ v \in visited : v # u /\ Joined(u, v) })
        + (IF Joined(u, u) THEN 2 ELSE 0)

(* C4: after classification every node of the subgraph is in exactly one   *)
(* of popular_pages (subgraph degree >= threshold) and regular_pages       *)
(* (subgraph degree < threshold); the degree is the one in the subgraph.   *)
C4_Partition ==
    Classified =>
        /\ popular_pages \cap regular_pages = {}
        /\ popular_pages \cup regular_pages = G_sub.nodes
        /\ \A u \in G_sub.nodes :
              /\ u \in popular_pages <=>
                    SubDegree(u) * degree_threshold.den >= degree_threshold.num
              /\ u \in regular_pages <=>
                    SubDegree(u) * degree_threshold.den < degree_threshold.num

(* both groups are non-empty, and some node is regular by its subgraph     *)
(* degree although its full-graph degree reaches the threshold             *)
C4_Witness ==
    /\ pc = "summary"
    /\ popular_pages # {}
    /\ regular_pages # {}
    /\ \E u \in regular_pages :
          FullDegree(u) * degree_threshold.den >= degree_threshold.num

NoModerateNode == \A u \in AllNodes : ~ (FullDegree(u) \in 20..100)

(* C5: when no node of the full graph has degree 20..100, the call never   *)
(* gets past seed selection: it fails there, no expansion step runs and    *)
(* no Sample Set or subgraph is produced or returned.                      *)
C5_NoSeedFails ==
    NoModerateNode =>
        /\ pc \in { "build", "seed", "failed" }
        /\ start_node = NoNode
        /\ visited = {}
        /\ queue = <<>>
        /\ G_sub = NoGraph
        /\ result = NoGraph

(* the call on the small scenario graph has failed *)
C5_Witness ==
    /\ pc = "failed"
    /\ edge_list = ScenarioEdges
    /\ num_nodes = 3

(* every node of the subgraph has the same subgraph degree *)
UniformSample == \A u, v \in visited : SubDegree(u) = SubDegree(v)

(* C6 as stated: a sample of uniform subgraph degree makes the call fail   *)
(* instead of returning the subgraph.                                      *)
C6_UniformFails ==
    (Classified /\ UniformSample) => pc # "done"

(* C6 amended: on a sample of uniform subgraph degree the threshold is     *)
(* that degree, popular_pages is the whole sample and regular_pages is     *)
(* empty; the mean printed for the regular pages is nan and the call       *)
(* returns the subgraph.                                                   *)
C6_UniformReturns ==
    /\ (Classified /\ UniformSample) =>
          /\ \A u \in visited :
                degree_threshold.num = SubDegree(u) * degree_threshold.den
          /\ popular_pages = visited
          /\ regular_pages = {}
    /\ (pc = "done" /\ UniformSample) =>
          /\ Len(printed) = 1
          /\ printed[1].regular = NaN
          /\ printed[1].popular # NaN
          /\ result = G_sub
    /\ (pc = "failed") => start_node = NoNode

(* a call whose sample has two nodes of the same degree has returned *)
C6_Witness ==
    /\ pc = "done"
    /\ UniformSample
    /\ Cardinality(visited) = 2
    /\ result.nodes = visited

(* the nodes of the graph G joined to a node of S by a path of G *)
RECURSIVE ReachInGraph(_, _)
ReachInGraph(G, S) ==
    LET T == S \cup UNION { G.adj[u] : u \in S }
    IN  IF T = S THEN S ELSE ReachInGraph(G, T)

(* C7: in every state of the expansion loop and after it, visited holds    *)
(* the seed and every visited node is joined to the seed by a path of      *)
(* visited nodes; the returned subgraph is connected.                      *)
C7_Connected ==
    /\ (Expanding \/ AfterLoop) =>
          /\ start_node \in visited
          /\ ReachWithin({start_node}, visited) = visited
    /\ pc = "done" => ReachInGraph(result, {start_node}) = result.nodes

(* in the middle of the for loop the sample has reached distance 2 and is  *)
(* still growing                                                           *)
C7_Witness ==
    /\ pc = "for"
    /\ Len(Balls) >= 2
    /\ \E v \in visited : v \notin Balls[2]
    /\ Cardinality(visited) < num_nodes
    /\ neighbors # <<>>

(* C8: visited never has more than num_nodes elements, and no step takes   *)
(* a node out of visited.                                                  *)
C8_BoundedMonotone ==
    /\ [](Cardinality(visited) <= num_nodes)
    /\ [][visited \subseteq visited']_vars

(* the for loop goes on after the bound was reached by an addition *)
C8_Witness ==
    /\ pc = "for"
    /\ neighbors # <<>>
    /\ Head(neighbors) \notin visited
    /\ Cardinality(visited) = num_nodes
    /\ num_nodes > 1

(* C9: the expansion loop always comes to its end; when the seed's         *)
(* component has fewer nodes than num_nodes it ends with an empty queue    *)
(* and the whole component sampled, and the call does not fail.            *)
C9_Terminates ==
    /\ (pc = "expand") ~> (pc = "subgraph")
    /\ [][(pc \in { "expand", "while", "for" }) => (pc' # "failed")]_vars
    /\ []((pc = "subgraph" /\ Cardinality(SeedComponent) < num_nodes) =>
             (queue = <<>> /\ visited = SeedComponent))

(* the loop ended on the empty queue, short of num_nodes *)
C9_Witness ==
    /\ pc = "subgraph"
    /\ queue = <<>>
    /\ Cardinality(visited) < num_nodes
    /\ Cardinality(visited) > 20

IsInjective(q) == \A i, j \in 1..Len(q) : q[i] = q[j] => i = j

(* C10: in every state of the expansion, a visited node at distance d >= 1 *)
(* from the seed means every node at distance at most d-1 is visited; the  *)
(* queue holds visited nodes, none twice, in non-decreasing distance.      *)
C10_LevelOrdered ==
    (Expanding \/ AfterLoop) =>
        LET balls == Balls
        IN  /\ \A d \in 1..(Len(balls) - 1) :
                  (visited \cap (balls[d + 1] \ balls[d]) # {}) =>
                      balls[d] \subseteq visited
            /\ visited \subseteq balls[Len(balls)]
            /\ \A i \in 1..Len(queue) : queue[i] \in visited
            /\ IsInjective(queue)
            /\ \A i \in 1..(Len(queue) - 1) :
                  DistIn(balls, queue[i]) <= DistIn(balls, queue[i + 1])

(* the loop ended on the bound with two levels complete and a part of the  *)
(* third sampled                                                           *)
C10_Witness ==
    /\ pc = "subgraph"
    /\ Len(Balls) >= 3
    /\ Balls[2] \subseteq visited
    /\ visited \cap (Balls[3] \ Balls[2]) # {}
    /\ (Balls[3] \ Balls[2]) \ visited # {}

=============================================================================
